---- MODULE Spec2Model ----
(***************************************************************************)
(* Task orchestration and cancellation of src/app.py.                      *)
(*                                                                         *)
(* State: the three process-wide registries of app.py (upload_tasks,       *)
(* process_pids, canceled_tasks, all guarded by tasks_lock), the batch     *)
(* runs started by handle_create_campaign (one orchestrator thread and one *)
(* ThreadPoolExecutor per group), and the socket events they emit.         *)
(*                                                                         *)
(* Every `with tasks_lock:` block is one atomic step.  The units of a      *)
(* group are interchangeable, so a pool is kept as counters.               *)
(*                                                                         *)
(* Spec is the program: a request handler, its background run, the pool    *)
(* threads and concurrent cancel_task requests.  In it create_ad never     *)
(* gets past `link = generate_link_with_utm(config)` (the name is bound to *)
(* the later two-parameter definition), so no external process is ever     *)
(* spawned and the pid lists stay empty.  SpecRegistry drives the three    *)
(* registries with their operations called in any order for two task ids,  *)
(* including process registration, to cover the states with pids.          *)
(*                                                                         *)
(* SpecPool is the program again, run on batches whose first group holds   *)
(* more files than a pool has threads.  SpecPoller is is_video_ready,      *)
(* called by a unit of a registered task for every max_retries and         *)
(* initial_delay within the bounds and every sequence of check results,    *)
(* with concurrent cancel_task requests.  SpecSteps is a unit of a         *)
(* registered task that runs the steps which start an external process,    *)
(* their coroutines run to completion, again with concurrent cancel_task.  *)
(*                                                                         *)
(* The request's ad_format is the default 'Single image or video'; time    *)
(* advances in steps of the 0.5 s throttle interval.                       *)
(***************************************************************************)
EXTENDS Integers, Sequences, FiniteSets, TLC

(* ------------------------------ bounds --------------------------------- *)
MaxCancels == 2
MaxPids == 2
MaxGroups == 2
MaxUnits == 2
MaxClock == 1
MaxExtra == 1
MaxRetries == 3
MaxDelay == 2

(* ------------------------- program constants --------------------------- *)
MAX_WORKERS == 10

\* number of arguments of the call generate_link_with_utm(config) in create_ad
create_ad_link_args == 1

\* number of required parameters of the module-level binding of
\* generate_link_with_utm in force when create_ad runs: the definition
\* `def generate_link_with_utm(link, config)` rebinds the earlier one-parameter
\* definition of the same name
generate_link_with_utm_params == 2

Tasks == {"t1", "t2"}
Runs == {"r1"}
Pids == 1 .. MaxPids
Threads == {"handler", "orchestrator", "worker"}
Kinds == {"videos", "images", "mixed"}

VARIABLES
    upload_tasks,     \* task id -> bool, the dict upload_tasks
    process_pids,     \* task id -> sequence of pids, the dict process_pids
    canceled_tasks,   \* the set canceled_tasks
    procs,            \* pid -> "none" (not spawned), "alive" or "dead"
    clock,            \* time.time(), in units of the 0.5 s throttle interval
    orch,             \* per run: the orchestrator thread (handler, then process_*)
    pool,             \* per run: the ThreadPoolExecutor of the current group
    out,              \* per run: the socket events emitted
    hist,             \* per run: history of the run (units started, recorded,
                      \* time of the latest event of the progress update, ...)
    last,             \* the most recent operation on the registries
    since,            \* per task id: checkpoints since the latest cancel_task
    finalized,        \* task ids whose latest run has gone through cleanup_task
    cancels,          \* number of cancel_task requests so far
    poll,             \* a call of is_video_ready: inputs, position, sleeps, result
    stage,            \* a call of a step that runs an external process
    tasks_lock,       \* the Lock tasks_lock: "free" or the thread that holds it
    thr               \* per thread: the registry function it executes and where

vars == <<upload_tasks, process_pids, canceled_tasks, procs, clock, orch, pool,
          out, hist, last, since, finalized, cancels, poll, stage, tasks_lock, thr>>

regvars == <<upload_tasks, process_pids, canceled_tasks>>
runvars == <<orch, pool, out, hist>>
stepvars == <<poll, stage>>
lockvars == <<tasks_lock, thr>>

(* ----------------------------- helpers --------------------------------- *)
Range(s) == {s[i] : i \in DOMAIN s}

RECURSIVE SumSeq(_)
SumSeq(s) == IF s = <<>> THEN 0 ELSE Head(s) + SumSeq(Tail(s))

RECURSIVE SumFolders(_)
SumFolders(fs) == IF fs = <<>> THEN 0 ELSE SumSeq(Head(fs)) + SumFolders(Tail(fs))

RECURSIVE CountGroups(_)
CountGroups(fs) == IF fs = <<>> THEN 0 ELSE Len(Head(fs)) + CountGroups(Tail(fs))

SeqsUpTo(S, n) == UNION {[1 .. k -> S] : k \in 1 .. n}

\* dict.pop(key, None)
Pop(d, k) == [x \in (DOMAIN d) \ {k} |-> d[x]]

\* d[key] = value
Put(d, k, v) == [x \in (DOMAIN d) \cup {k} |-> IF x = k THEN v ELSE d[x]]

\* process_pids.get(task_id, [])
PidsOf(pp, t) == IF t \in DOMAIN pp THEN pp[t] ELSE <<>>

\* the record of an operation on the registries; n alternates between
\* successive operations
Op(name, t, raised, sig, repeat) ==
    [op |-> name, task_id |-> t, raised |-> raised, sig |-> sig,
     repeat |-> repeat, gone |-> {}, n |-> 1 - last.n]

(* ------------------------- check_cancellation -------------------------- *)
\* `if task_id in canceled_tasks`
Raises(c, t) == t \in c

check_cancellation_keep(c, t) == c

\* canceled_tasks after check_cancellation(task_id)
check_cancellation_set(c, t) == IF t \in c THEN c \ {t} ELSE c

\* check_cancellation(task_id), called by whichever thread reaches a checkpoint
check_cancellation(t) ==
    /\ canceled_tasks' = check_cancellation_set(canceled_tasks, t)
    /\ last' = Op("check_cancellation", t, Raises(canceled_tasks, t), {}, FALSE)
    /\ since' = [since EXCEPT ![t] =
                   IF ~ since[t].armed THEN since[t]
                   ELSE IF Raises(canceled_tasks, t)
                        THEN [since[t] EXCEPT !.raises = IF @ >= 2 THEN 2 ELSE @ + 1]
                        ELSE [since[t] EXCEPT !.early = @ \/ since[t].raises = 0,
                                              !.passed = TRUE]]
    /\ UNCHANGED <<upload_tasks, process_pids, procs, finalized>>

(* ----------------------------- cancel_task ----------------------------- *)
\* canceled_tasks after cancel_task: `canceled_tasks.add(task_id)`
cancel_task_mark(c, u, t) == c \cup {t}

cancel_task_signals_first(u, pp, t) ==
    IF t \in DOMAIN u /\ PidsOf(pp, t) # <<>> THEN {Head(PidsOf(pp, t))} ELSE {}

\* the pids os.kill(pid, signal.SIGTERM) is called on
cancel_task_signals(u, pp, t) ==
    IF t \in DOMAIN u THEN Range(PidsOf(pp, t)) ELSE {}

cancel_task_pids_all(u, pp, t) == [x \in {} |-> <<>>]

\* process_pids after cancel_task: `process_pids.pop(task_id, None)`
cancel_task_pids(u, pp, t) == IF t \in DOMAIN u THEN Pop(pp, t) ELSE pp

cancel_task_flags_toggle(u, t) ==
    IF t \in DOMAIN u THEN Put(u, t, ~ u[t]) ELSE u

\* upload_tasks after cancel_task: `upload_tasks[task_id] = False`
cancel_task_flags(u, t) == IF t \in DOMAIN u THEN Put(u, t, FALSE) ELSE u

Terminate_lookup_error(ps, sig) ==
    [p \in Pids |-> IF /\ p \in sig
                       /\ ps[p] = "alive"
                       /\ \A q \in sig : ps[q] = "dead" => p < q
                    THEN "dead" ELSE ps[p]]

\* SIGTERM ends the processes it reaches; ProcessLookupError for a process
\* that is gone is swallowed
Terminate(ps, sig) ==
    [p \in Pids |-> IF p \in sig /\ ps[p] = "alive" THEN "dead" ELSE ps[p]]

\* the body of the request handler cancel_task, one critical section
cancel_task(t) ==
    /\ canceled_tasks' = cancel_task_mark(canceled_tasks, upload_tasks, t)
    /\ upload_tasks' = cancel_task_flags(upload_tasks, t)
    /\ process_pids' = cancel_task_pids(upload_tasks, process_pids, t)
    /\ procs' = Terminate(procs, cancel_task_signals(upload_tasks, process_pids, t))
    /\ last' = [Op("cancel_task", t, FALSE,
                    cancel_task_signals(upload_tasks, process_pids, t),
                    last.op = "cancel_task" /\ last.task_id = t)
                   EXCEPT !.gone = {p \in cancel_task_signals(upload_tasks, process_pids, t) :
                                      procs[p] = "dead"}]
    /\ since' = [since EXCEPT ![t] = [armed |-> TRUE, raises |-> 0, early |-> FALSE,
                                      passed |-> FALSE]]
    /\ UNCHANGED <<clock, finalized, runvars,
                   stepvars>>

(* ------------------------ registration, cleanup ------------------------ *)
\* process_pids after `process_pids[task_id] = []` of handle_create_campaign
register_entry(pp, t) == Put(pp, t, <<>>)

\* register_task_process(task_id, pid), and the same block of generate_thumbnail
register_task_process(pp, t, p) == Put(pp, t, Append(PidsOf(pp, t), p))

cleanup_task_pids_keep(pp, t) == pp

\* process_pids after cleanup_task: `process_pids.pop(task_id, None)`
cleanup_task_pids(pp, t) == Pop(pp, t)

(* ------------------------------ initial -------------------------------- *)
IdleOrch == [pc |-> "idle", task_id |-> "t1", kind |-> "mixed", folders |-> <<>>,
             groups |-> <<>>, total |-> 0, pbar_n |-> 0, processed_files |-> 0,
             last_update_time |-> 0, leave |-> "none"]

\* no call of is_video_ready is in progress
IdlePoll == [pc |-> "idle", task_id |-> "t1", max_retries |-> 0, initial_delay |-> 1,
             marked |-> FALSE, attempt |-> 0, delay |-> 1, results |-> <<>>,
             sleeps |-> <<>>, ret |-> "none"]

\* no step is in progress
IdleThread == [pc |-> "idle", op |-> "none", task_id |-> "t1", pid |-> 0,
               raised |-> FALSE]

IdleStage == [pc |-> "idle", fn |-> "none", task_id |-> "t1", pid |-> 0,
              returncode |-> "none", errors |-> 0, outcome |-> "none", checked |-> FALSE]

IdlePool == [queued |-> 0, entered |-> 0, running |-> 0, done_ok |-> 0,
             done_canceled |-> 0, pending |-> 0]

Init ==
    /\ upload_tasks = [x \in {} |-> FALSE]
    /\ process_pids = [x \in {} |-> <<>>]
    /\ canceled_tasks = {}
    /\ procs = [p \in Pids |-> "none"]
    /\ clock = 0
    /\ orch = [r \in Runs |-> IdleOrch]
    /\ pool = [r \in Runs |-> IdlePool]
    /\ out = [r \in Runs |-> [progress |-> <<>>, errors |-> 0, task_complete |-> 0]]
    /\ hist = [r \in Runs |-> [observed |-> FALSE, started |-> 0, submitted |-> 0,
                               executed |-> 0, failed |-> 0, result |-> "none",
                               emitted |-> -1]]
    /\ last = [op |-> "none", task_id |-> "t1", raised |-> FALSE, sig |-> {},
               repeat |-> FALSE, gone |-> {}, n |-> 0]
    /\ since = [t \in Tasks |-> [armed |-> FALSE, raises |-> 0, early |-> FALSE,
                                 passed |-> FALSE]]
    /\ finalized = {}
    /\ cancels = 0
    /\ poll = IdlePoll
    /\ stage = IdleStage
    /\ tasks_lock = "free"
    /\ thr = [th \in Threads |-> IdleThread]

(* ------------------------------ events -------------------------------- *)
Progress(pct, step, total) == [progress |-> pct, step |-> step, total |-> total]

\* emit_error / socketio.emit('error', ...)
emit_error(e) == [e EXCEPT !.errors = @ + 1]

\* emit_progress(task_id, progress, total, step)
emit_progress(e, pct, step, total) ==
    [e EXCEPT !.progress = Append(@, Progress(pct, step, total))]

\* emit_task_complete(task_id)
emit_task_complete(e) == [e EXCEPT !.task_complete = @ + 1]

handle_processing_error_silent(e) == e

handle_processing_error_complete(e) == emit_task_complete(emit_error(e))

\* handle_processing_error_video / _image / handle_processing_error
handle_processing_error(e) == emit_error(e)

(* ------------------------ handle_create_campaign ----------------------- *)
\* the folders of a request: each folder is the sequence of its groups (one
\* group for a folder without subfolders), each group the number of its files
Folders == SeqsUpTo(0 .. MaxUnits, MaxGroups)
Batches == {b \in SeqsUpTo(Folders, MaxGroups) : CountGroups(b) <= MaxGroups}

\* the branch of lines 1484-1489 taken for the totals of a batch
KindsOf(total) ==
    IF total = 0 THEN {} ELSE IF total = 1 THEN {"videos", "images"} ELSE Kinds

\* `with tasks_lock: upload_tasks[task_id] = True; process_pids[task_id] = []`
handle_create_campaign_register(r, t) ==
    /\ orch[r].pc = "idle"
    /\ upload_tasks' = Put(upload_tasks, t, TRUE)
    /\ process_pids' = register_entry(process_pids, t)
    /\ finalized' = finalized \ {t}
    /\ last' = Op("register_task", t, FALSE, {}, FALSE)
    /\ orch' = [orch EXCEPT ![r].pc = "campaign", ![r].task_id = t]
    /\ UNCHANGED <<canceled_tasks, procs, clock, since, cancels, lockvars, pool, out, hist,
                   stepvars>>

\* the campaign given in the request is looked up; `return ..., 404` when it
\* is not found
handle_create_campaign_existing(r) ==
    /\ orch[r].pc = "campaign"
    /\ \E found \in BOOLEAN :
         orch' = [orch EXCEPT ![r].pc = IF found THEN "scan" ELSE "returned"]
    /\ UNCHANGED <<regvars, procs, clock, pool, out, hist, last, since, finalized,
                   cancels, lockvars,
                   stepvars>>

\* create_campaign: its checkpoint is outside its try, the exception ends the
\* request in the outer handler of handle_create_campaign; a failed creation
\* emits an error and the request returns
handle_create_campaign_create(r) ==
    /\ orch[r].pc = "campaign"
    /\ check_cancellation(orch[r].task_id)
    /\ IF Raises(canceled_tasks, orch[r].task_id)
       THEN /\ orch' = [orch EXCEPT ![r].pc = "returned"]
            /\ hist' = [hist EXCEPT ![r].observed = TRUE]
            /\ out' = out
       ELSE \E created \in BOOLEAN :
            /\ orch' = [orch EXCEPT ![r].pc = IF created THEN "scan" ELSE "returned"]
            /\ out' = [out EXCEPT ![r] = IF created THEN @ ELSE emit_error(@)]
            /\ hist' = hist
    /\ UNCHANGED <<clock, cancels, lockvars, pool,
                   stepvars>>

\* the uploaded folders are scanned, the totals computed and the background
\* task started; no task is started for a request without media files
handle_create_campaign_start(r) ==
    /\ orch[r].pc = "scan"
    /\ \E b \in Batches :
         IF SumFolders(b) = 0
         THEN orch' = [orch EXCEPT ![r].pc = "returned"]
         ELSE \E k \in KindsOf(SumFolders(b)) :
                orch' = [orch EXCEPT ![r].pc = "start", ![r].kind = k,
                                     ![r].folders = b, ![r].total = SumFolders(b)]
    /\ UNCHANGED <<regvars, procs, clock, pool, out, hist, last, since, finalized,
                   cancels, lockvars,
                   stepvars>>

(* ------------- process_videos / process_images / process_mixed_media --- *)
AfterGroup_leave_folder(o) ==
    [o EXCEPT !.groups = <<>>, !.pc = "folder", !.leave = "none"]

\* where the folder loop goes on after a group
AfterGroup(o) ==
    [o EXCEPT !.groups = Tail(@),
              !.pc = IF Tail(o.groups) = <<>> THEN "folder" ELSE "group",
              !.leave = "none"]

process_start_silent(r) ==
    /\ orch[r].pc = "start"
    /\ orch' = [orch EXCEPT ![r].pc = "folder", ![r].last_update_time = clock,
                            ![r].processed_files = 0, ![r].pbar_n = 0]
    /\ UNCHANGED <<regvars, procs, clock, pool, out, hist, last, since, finalized,
                   cancels, lockvars,
                   stepvars>>

\* emit_progress(task_id, 0, total, 0); last_update_time = time.time()
process_start(r) ==
    /\ orch[r].pc = "start"
    /\ out' = [out EXCEPT ![r] = emit_progress(@, 0, 0, orch[r].total)]
    /\ orch' = [orch EXCEPT ![r].pc = "folder", ![r].last_update_time = clock,
                            ![r].processed_files = 0, ![r].pbar_n = 0]
    /\ UNCHANGED <<regvars, procs, clock, pool, hist, last, since, finalized, cancels, lockvars,
                   stepvars>>

\* `for folder in folders: check_cancellation(task_id)`
process_folder(r) ==
    /\ orch[r].pc = "folder"
    /\ orch[r].folders # <<>>
    /\ check_cancellation(orch[r].task_id)
    /\ IF Raises(canceled_tasks, orch[r].task_id)
       THEN /\ orch' = [orch EXCEPT ![r].pc = "cleanup"]
            /\ hist' = [hist EXCEPT ![r].observed = TRUE, ![r].result = "Canceled"]
       ELSE /\ orch' = [orch EXCEPT ![r].pc = "group",
                                    ![r].groups = Head(orch[r].folders),
                                    ![r].folders = Tail(orch[r].folders)]
            /\ hist' = hist
    /\ UNCHANGED <<clock, cancels, lockvars, pool, out,
                   stepvars>>

\* a group without media files: `continue` / `return` before create_ad_set
process_group_empty(r) ==
    /\ orch[r].pc = "group"
    /\ Head(orch[r].groups) = 0
    /\ orch' = [orch EXCEPT ![r] = AfterGroup(@)]
    /\ UNCHANGED <<regvars, procs, clock, pool, out, hist, last, since, finalized,
                   cancels, lockvars,
                   stepvars>>

\* create_ad_set (checkpoint outside its try; a failure emits an error and
\* returns None, the group is skipped), then every file is submitted to a
\* new ThreadPoolExecutor
process_group(r) ==
    /\ orch[r].pc = "group"
    /\ Head(orch[r].groups) > 0
    /\ check_cancellation(orch[r].task_id)
    /\ IF Raises(canceled_tasks, orch[r].task_id)
       THEN /\ orch' = [orch EXCEPT ![r].pc = "cleanup"]
            /\ hist' = [hist EXCEPT ![r].observed = TRUE, ![r].result = "Canceled"]
            /\ UNCHANGED <<pool, out>>
       ELSE \E ad_set \in BOOLEAN :
            IF ad_set
            THEN /\ pool' = [pool EXCEPT ![r] = [IdlePool EXCEPT
                                  !.queued = Head(orch[r].groups),
                                  !.pending = Head(orch[r].groups)]]
                 /\ orch' = [orch EXCEPT ![r].pc = "collect", ![r].processed_files = 0]
                 /\ hist' = [hist EXCEPT ![r].submitted = @ + Head(orch[r].groups)]
                 /\ out' = out
            ELSE /\ out' = [out EXCEPT ![r] = emit_error(@)]
                 /\ orch' = [orch EXCEPT ![r] = AfterGroup(@)]
                 /\ UNCHANGED <<pool, hist>>
    /\ UNCHANGED <<clock, cancels, lockvars,
                   stepvars>>

\* update_progress of process_videos / process_images reads last_update_time,
\* which is a local of process_videos and not visible in update_progress
update_progress_raises(kind) == kind \in {"videos", "images"}

\* the throttle test `current_time - last_update_time >= 0.5`
Throttled(now, last_update_time) == now - last_update_time < 1

update_progress_media_undivided(o, now) ==
    IF Throttled(now, o.last_update_time) THEN <<>>
    ELSE <<Progress((o.processed_files + 1) * 100, o.processed_files + 1, o.total)>>

\* update_progress_media, called after `processed_files += 1`: the event
\* emitted, if any; the percentage processed_files / total_files * 100 is kept
\* as its integer part
update_progress_media(o, now) ==
    IF Throttled(now, o.last_update_time) THEN <<>>
    ELSE <<Progress(((o.processed_files + 1) * 100) \div o.total,
                    o.processed_files + 1, o.total)>>

\* one iteration of `for future in as_completed(...)`, for a finished future
\* whose create_ad returned (res = "ok") or raised TaskCanceledException
process_collect(r, res) ==
    /\ orch[r].pc = "collect"
    /\ IF res = "ok" THEN pool[r].done_ok > 0 ELSE pool[r].done_canceled > 0
    /\ check_cancellation(orch[r].task_id)
    /\ pool' = [pool EXCEPT ![r].pending = @ - 1,
                            ![r].done_ok = IF res = "ok" THEN @ - 1 ELSE @,
                            ![r].done_canceled = IF res = "ok" THEN @ ELSE @ - 1]
    /\ IF Raises(canceled_tasks, orch[r].task_id)
       THEN /\ orch' = [orch EXCEPT ![r].pc = "exit_pool", ![r].leave = "canceled"]
            /\ hist' = [hist EXCEPT ![r].observed = TRUE]
            /\ out' = out
       ELSE /\ hist' = [hist EXCEPT ![r].emitted =
                          IF \/ update_progress_raises(orch[r].kind)
                             \/ update_progress_media(orch[r], clock) = <<>>
                          THEN @ ELSE clock]
            /\ IF update_progress_raises(orch[r].kind)
               THEN /\ orch' = [orch EXCEPT ![r].pbar_n = @ + 1,
                                            ![r].pc = "exit_pool",
                                            ![r].leave = "error"]
                    /\ out' = out
               ELSE /\ out' = [out EXCEPT ![r].progress =
                                 @ \o update_progress_media(orch[r], clock)]
                    /\ orch' = [orch EXCEPT ![r] =
                         LET o == [@ EXCEPT !.pbar_n = @ + 1,
                                            !.processed_files = @ + 1]
                         IN  IF res = "canceled"
                             THEN [o EXCEPT !.pc = "exit_pool", !.leave = "return"]
                             ELSE IF pool[r].pending = 1 THEN AfterGroup(o) ELSE o]
    /\ UNCHANGED <<clock, cancels, lockvars,
                   stepvars>>

shutdown_nowait(p) == TRUE

\* ThreadPoolExecutor.__exit__ is shutdown(wait=True): the `with` block is
\* left once no submitted unit is waiting for a thread or running
shutdown_wait(p) == p.queued + p.entered + p.running = 0

\* ThreadPoolExecutor.__exit__ waits for every submitted unit, then the
\* `return` goes on with the next group and an exception reaches the handlers
\* of process_*: TaskCanceledException is logged, any other emits an error
process_exit_pool(r) ==
    /\ orch[r].pc = "exit_pool"
    /\ shutdown_wait(pool[r])
    /\ pool' = [pool EXCEPT ![r].pending = 0, ![r].done_ok = 0,
                            ![r].done_canceled = 0]
    /\ \/ /\ orch[r].leave = "return"
          /\ orch' = [orch EXCEPT ![r] = AfterGroup(@)]
          /\ UNCHANGED <<out, hist>>
       \/ /\ orch[r].leave = "canceled"
          /\ orch' = [orch EXCEPT ![r].pc = "cleanup", ![r].leave = "none"]
          /\ hist' = [hist EXCEPT ![r].result = "Canceled"]
          /\ out' = out
       \/ /\ orch[r].leave = "error"
          /\ orch' = [orch EXCEPT ![r].pc = "cleanup", ![r].leave = "none"]
          /\ hist' = [hist EXCEPT ![r].result = "Failed"]
          /\ out' = [out EXCEPT ![r] = handle_processing_error(@)]
    /\ UNCHANGED <<regvars, procs, clock, last, since, finalized, cancels, lockvars,
                   stepvars>>

\* after the folder loop: emit_progress(task_id, 100, ...); emit_task_complete
process_finish(r) ==
    /\ orch[r].pc = "folder"
    /\ orch[r].folders = <<>>
    /\ out' = [out EXCEPT ![r] = emit_task_complete(
                            emit_progress(@, 100, orch[r].total, orch[r].total))]
    /\ hist' = [hist EXCEPT ![r].result = "Completed"]
    /\ orch' = [orch EXCEPT ![r].pc = "cleanup"]
    /\ UNCHANGED <<regvars, procs, clock, pool, last, since, finalized, cancels, lockvars,
                   stepvars>>

cleanup_task_after_success(r) ==
    /\ orch[r].pc = "cleanup"
    /\ hist[r].result = "Completed"
    /\ process_pids' = cleanup_task_pids(process_pids, orch[r].task_id)
    /\ finalized' = finalized \cup {orch[r].task_id}
    /\ last' = Op("cleanup_task", orch[r].task_id, FALSE, {}, FALSE)
    /\ orch' = [orch EXCEPT ![r].pc = "done"]
    /\ UNCHANGED <<upload_tasks, canceled_tasks, procs, clock, pool, out, hist, since,
                   cancels, lockvars, stepvars>>

\* finally: cleanup_task(task_id, temp_dir)
cleanup_task(r) ==
    /\ orch[r].pc = "cleanup"
    /\ process_pids' = cleanup_task_pids(process_pids, orch[r].task_id)
    /\ finalized' = finalized \cup {orch[r].task_id}
    /\ last' = Op("cleanup_task", orch[r].task_id, FALSE, {}, FALSE)
    /\ orch' = [orch EXCEPT ![r].pc = "done"]
    /\ UNCHANGED <<upload_tasks, canceled_tasks, procs, clock, pool, out, hist, since,
                   cancels, lockvars,
                   stepvars>>

(* ------------------------------ workers -------------------------------- *)
max_workers_unbounded(p) == TRUE

\* ThreadPoolExecutor(max_workers=MAX_WORKERS): a submitted unit gets a
\* thread only while fewer than MAX_WORKERS units are being executed
max_workers(p) == p.entered + p.running < MAX_WORKERS

\* a pool thread takes a submitted unit and calls create_ad
worker_start(r) ==
    /\ pool[r].queued > 0
    /\ max_workers(pool[r])
    /\ pool' = [pool EXCEPT ![r].queued = @ - 1, ![r].entered = @ + 1]
    /\ hist' = [hist EXCEPT ![r].started = @ + 1]
    /\ UNCHANGED <<regvars, procs, clock, orch, out, last, since, finalized, cancels, lockvars,
                   stepvars>>

\* the first statement of create_ad, outside its try: the exception becomes
\* the exception of the future
create_ad_check(r) ==
    /\ pool[r].entered > 0
    /\ check_cancellation(orch[r].task_id)
    /\ IF Raises(canceled_tasks, orch[r].task_id)
       THEN /\ pool' = [pool EXCEPT ![r].entered = @ - 1, ![r].done_canceled = @ + 1]
            /\ hist' = [hist EXCEPT ![r].observed = TRUE, ![r].executed = @ + 1]
       ELSE /\ pool' = [pool EXCEPT ![r].entered = @ - 1, ![r].running = @ + 1]
            /\ hist' = hist
    /\ UNCHANGED <<clock, cancels, lockvars, orch, out,
                   stepvars>>

\* the try block of create_ad raises TypeError at its second statement
create_ad_fails == create_ad_link_args # generate_link_with_utm_params

\* the try block of create_ad: every exception is caught, emit_error reports
\* it, and create_ad returns
create_ad_body(r) ==
    /\ pool[r].running > 0
    /\ pool' = [pool EXCEPT ![r].running = @ - 1, ![r].done_ok = @ + 1]
    /\ out' = [out EXCEPT ![r] = IF create_ad_fails THEN emit_error(@) ELSE @]
    /\ hist' = [hist EXCEPT ![r].executed = @ + 1,
                            ![r].failed = IF create_ad_fails THEN @ + 1 ELSE @]
    /\ UNCHANGED <<regvars, procs, clock, orch, last, since, finalized, cancels, lockvars,
                   stepvars>>

\* a cancel_task request for task id t arrives
cancel_request(t) ==
    /\ cancels < MaxCancels
    /\ cancels' = cancels + 1
    /\ cancel_task(t)
    /\ UNCHANGED lockvars

\* half a second passes
Tick ==
    /\ clock < MaxClock
    /\ clock' = clock + 1
    /\ UNCHANGED <<regvars, procs, orch, pool, out, hist, last, since, finalized,
                   cancels, lockvars, stepvars>>

Next ==
    \/ \E r \in Runs, t \in Tasks : handle_create_campaign_register(r, t)
    \/ \E r \in Runs : handle_create_campaign_existing(r)
    \/ \E r \in Runs : handle_create_campaign_create(r)
    \/ \E r \in Runs : handle_create_campaign_start(r)
    \/ \E r \in Runs : process_start(r)
    \/ \E r \in Runs : process_folder(r)
    \/ \E r \in Runs : process_group_empty(r)
    \/ \E r \in Runs : process_group(r)
    \/ \E r \in Runs, res \in {"ok", "canceled"} : process_collect(r, res)
    \/ \E r \in Runs : process_exit_pool(r)
    \/ \E r \in Runs : process_finish(r)
    \/ \E r \in Runs : cleanup_task(r)
    \/ \E r \in Runs : worker_start(r)
    \/ \E r \in Runs : create_ad_check(r)
    \/ \E r \in Runs : create_ad_body(r)
    \/ \E t \in Tasks : cancel_request(t)
    \/ Tick

Spec == Init /\ [][Next]_vars

(* ======================================================================= *)
(*                               properties                                *)
(* ======================================================================= *)
\* a step that is an operation on the registries
RegistryStep == last'.n # last.n

InFlight(t) == t \in DOMAIN upload_tasks /\ t \notin finalized

C3_CancelTerminatesAll ==
    [][(RegistryStep /\ last'.op = "cancel_task" /\ InFlight(last'.task_id)) =>
         LET t == last'.task_id IN
         /\ t \in canceled_tasks'
         /\ last'.sig = Range(PidsOf(process_pids, t))
         /\ \A p \in Range(PidsOf(process_pids, t)) : procs'[p] = "dead"
         /\ t \notin DOMAIN process_pids']_vars

\* a cancel_task has just signalled two registered processes of its task
C3_Witness ==
    /\ last.op = "cancel_task"
    /\ Cardinality(last.sig) >= 2
    /\ last.task_id \in canceled_tasks
    /\ last.task_id \notin DOMAIN process_pids

\* C4: check_cancellation(t) raises and removes t from canceled_tasks when t
\* is in canceled_tasks; otherwise it returns normally and leaves
\* canceled_tasks unchanged.
C4_CheckCancellation ==
    [][(RegistryStep /\ last'.op = "check_cancellation") =>
         LET t == last'.task_id IN
         /\ last'.raised <=> t \in canceled_tasks
         /\ t \in canceled_tasks => canceled_tasks' = canceled_tasks \ {t}
         /\ t \notin canceled_tasks => canceled_tasks' = canceled_tasks]_vars

\* a checkpoint has just raised and cleared the mark
C4_Witness ==
    /\ last.op = "check_cancellation"
    /\ last.raised
    /\ last.task_id \notin canceled_tasks

\* C5: among the check_cancellation(t) calls made after the latest
\* cancel_task(t), by any thread, the first one raises and no other one does.
C5_ObservedOnce ==
    \A t \in Tasks : since[t].armed => since[t].raises <= 1 /\ ~ since[t].early

\* after a cancel, one checkpoint raised and a later one returned normally
C5_Witness ==
    \E t \in Tasks : since[t].armed /\ since[t].raises = 1 /\ since[t].passed

\* C6: cancel_task(t) after t's run has gone through cleanup_task is a no-op:
\* canceled_tasks and process_pids are unchanged and no signal is sent.
C6_CancelAfterCleanupNoOp ==
    [][(RegistryStep /\ last'.op = "cancel_task" /\ last'.task_id \in finalized) =>
         /\ canceled_tasks' = canceled_tasks
         /\ process_pids' = process_pids
         /\ last'.sig = {}]_vars

\* C7: a cancel_task(t) that directly follows a cancel_task(t), with no
\* checkpoint or registration in between, changes none of canceled_tasks,
\* upload_tasks, process_pids.
C7_CancelIdempotent ==
    [][(RegistryStep /\ last'.op = "cancel_task" /\ last'.repeat) =>
         /\ canceled_tasks' = canceled_tasks
         /\ upload_tasks' = upload_tasks
         /\ process_pids' = process_pids
         /\ last'.sig = {}]_vars

\* the second of two consecutive cancel_task(t), the first of which
\* terminated a registered process
C7_Witness ==
    /\ last.op = "cancel_task"
    /\ last.repeat
    /\ last.task_id \in DOMAIN upload_tasks
    /\ \E p \in Pids : procs[p] = "dead"

\* C8: cancel_task(t1), check_cancellation(t1) and cleanup_task(t1) never
\* change the membership of another task id t2 in canceled_tasks nor its pid
\* list, and never signal a pid registered only under t2.
C8_TaskIsolation ==
    [][(RegistryStep /\
        last'.op \in {"cancel_task", "check_cancellation", "cleanup_task"}) =>
         \A t2 \in Tasks \ {last'.task_id} :
           /\ t2 \in canceled_tasks' <=> t2 \in canceled_tasks
           /\ t2 \in DOMAIN process_pids' <=> t2 \in DOMAIN process_pids
           /\ PidsOf(process_pids', t2) = PidsOf(process_pids, t2)
           /\ \A p \in Range(PidsOf(process_pids, t2)) \
                       Range(PidsOf(process_pids, last'.task_id)) :
                p \notin last'.sig /\ procs'[p] = procs[p]]_vars

\* a cancel_task has terminated a process of its task while another task is
\* marked canceled and holds a live registered process
C8_Witness ==
    /\ last.op = "cancel_task"
    /\ last.sig # {}
    /\ \E t2 \in Tasks \ {last.task_id} :
         /\ t2 \in canceled_tasks
         /\ \E p \in Range(PidsOf(process_pids, t2)) : procs[p] = "alive"

\* C9: task_complete is emitted at most once per run, only after the folder
\* loop has iterated every group with no exception escaping it, and never in
\* a run that ended Failed.
C9_CompleteOnlyAfterLoop ==
    \A r \in Runs :
      /\ out[r].task_complete <= 1
      /\ out[r].task_complete >= 1 =>
           /\ orch[r].pc \in {"cleanup", "done"}
           /\ orch[r].folders = <<>> /\ orch[r].groups = <<>>
           /\ hist[r].result = "Completed"
      /\ hist[r].result = "Failed" => out[r].task_complete = 0

\* a run has ended with task_complete emitted
C9_Witness ==
    \E r \in Runs : orch[r].pc = "done" /\ out[r].task_complete = 1

C13_ProgressBounded ==
    \A r \in Runs :
      \A i \in DOMAIN out[r].progress :
        LET e == out[r].progress[i] IN
        /\ 0 <= e.step /\ e.step <= e.total
        /\ e.total = orch[r].total
        /\ 0 <= e.progress /\ e.progress <= 100

\* a throttle-tested event of the last unit of a group that holds every file
\* of the batch has been emitted before the final one
C13_Witness ==
    \E r \in Runs :
      \E i \in DOMAIN out[r].progress :
        /\ i < Len(out[r].progress)
        /\ out[r].progress[i].step = orch[r].total
        /\ orch[r].total >= 2

\* C14: when a 100% progress event has been emitted in a run, the outcome of
\* every unit counted in the run's total has been recorded by the progress
\* update: the number of recorded outcomes equals the total.
C14_AllRecordedAtFinal ==
    \A r \in Runs :
      (\E i \in DOMAIN out[r].progress : out[r].progress[i].progress = 100) =>
        orch[r].pbar_n = orch[r].total

\* C15: the first progress event of a run is the 0% event: no event of the
\* progress update and no 100% event precedes it, and the run emits it before
\* it enters the folder loop.
C15_ZeroFirst ==
    \A r \in Runs :
      /\ out[r].progress # <<>> => out[r].progress[1] = Progress(0, 0, orch[r].total)
      /\ orch[r].pc \in {"folder", "group", "collect", "exit_pool", "cleanup", "done"}
           => out[r].progress # <<>>

\* a run has emitted the 0% event, then an event of the progress update, then
\* the 100% event
C15_Witness ==
    \E r \in Runs :
      /\ Len(out[r].progress) >= 3
      /\ out[r].progress[1].progress = 0
      /\ out[r].progress[2].step >= 1
      /\ out[r].task_complete = 1

\* C16: outside of a group's `with ThreadPoolExecutor` block, and so when
\* cleanup_task runs and afterwards, no unit of the run is waiting for a
\* thread or executing create_ad, and every unit submitted so far has
\* returned from create_ad: the block is left, normally, by `return` or by an
\* exception, only when all its units have returned.
C16_PoolDrainedOnLeave ==
    \A r \in Runs :
      orch[r].pc \notin {"collect", "exit_pool"} =>
        /\ pool[r].queued + pool[r].entered + pool[r].running = 0
        /\ hist[r].executed = hist[r].submitted

\* a run has ended Canceled after it left a group of at least two units
\* before collecting all of them, and all of them have returned
C16_Witness ==
    \E r \in Runs :
      /\ orch[r].pc = "done"
      /\ hist[r].result = "Canceled"
      /\ hist[r].submitted >= 2
      /\ orch[r].pbar_n < hist[r].submitted
      /\ hist[r].executed = hist[r].submitted

\* C17: a run that has ended, Completed, Canceled or Failed, has gone through
\* cleanup_task and process_pids holds no entry for its task id; a run whose
\* outcome is decided is in its finally block or past it.
C17_CleanupOnEveryEnd ==
    \A r \in Runs :
      /\ hist[r].result # "none" => orch[r].pc \in {"cleanup", "done"}
      /\ orch[r].pc = "done" =>
           /\ hist[r].result \in {"Completed", "Canceled", "Failed"}
           /\ orch[r].task_id \in finalized
           /\ orch[r].task_id \notin DOMAIN process_pids

\* a run that no cancel_task request touched has ended Failed and its entry
\* is gone from process_pids
C17_Witness ==
    \E r \in Runs :
      /\ orch[r].pc = "done"
      /\ hist[r].result = "Failed"
      /\ cancels = 0
      /\ orch[r].task_id \in DOMAIN upload_tasks
      /\ orch[r].task_id \notin DOMAIN process_pids

\* C18: at no time are more than MAX_WORKERS units of a run executing
\* create_ad, and a group's units are submitted only when no unit of an
\* earlier group of the run is still waiting for a thread or executing.
C18_BoundedConcurrency ==
    \A r \in Runs :
      /\ pool[r].entered + pool[r].running <= MAX_WORKERS
      /\ orch[r].pc \in {"folder", "group"} =>
           pool[r].queued + pool[r].entered + pool[r].running = 0

\* MAX_WORKERS units of a group are executing create_ad while another unit
\* of the group is waiting for a thread
C18_Witness ==
    \E r \in Runs :
      /\ pool[r].entered + pool[r].running = MAX_WORKERS
      /\ pool[r].running >= 1
      /\ pool[r].queued >= 1

C26_ReacceptKeepsPids ==
    [][(RegistryStep /\ last'.op = "register_task" /\ InFlight(last'.task_id)) =>
         PidsOf(process_pids', last'.task_id) =
           PidsOf(process_pids, last'.task_id)]_vars

\* C27: the step by which a run ends Failed (an exception other than
\* TaskCanceledException has left the folder loop) emits one error event and
\* leads to cleanup_task; it emits neither a progress event nor
\* task_complete, and no event at all is emitted by the run afterwards; a
\* Failed run has emitted no task_complete, and once done it is finalized.
C27_FailedRun ==
    [][\A r \in Runs :
         /\ (hist[r].result # "Failed" /\ hist'[r].result = "Failed") =>
              /\ out'[r].errors = out[r].errors + 1
              /\ out'[r].progress = out[r].progress
              /\ out'[r].task_complete = 0
              /\ orch'[r].pc = "cleanup"
         /\ hist[r].result = "Failed" =>
              /\ out'[r] = out[r]
              /\ hist'[r].result = "Failed"
              /\ orch'[r].pc \in {"cleanup", "done"}
              /\ orch'[r].pc = "done" => orch'[r].task_id \in finalized']_vars

\* a run has ended Failed: it emitted the 0% event only, the error events of
\* a unit and of the failure, and no task_complete
C27_Witness ==
    \E r \in Runs :
      /\ orch[r].pc = "done"
      /\ hist[r].result = "Failed"
      /\ out[r].errors >= 2
      /\ Len(out[r].progress) = 1
      /\ out[r].task_complete = 0

C33_DeadPidSwallowed ==
    [][(RegistryStep /\ last'.op = "cancel_task" /\ last'.gone # {}) =>
         LET t == last'.task_id IN
         /\ ~ last'.raised
         /\ last'.gone \subseteq Range(PidsOf(process_pids, t))
         /\ \A p \in Range(PidsOf(process_pids, t)) \ last'.gone :
              procs[p] = "alive" => procs'[p] = "dead"
         /\ t \notin DOMAIN process_pids'
         /\ t \in canceled_tasks']_vars

\* a cancel_task has just met an exited process and a running one in the pid
\* list of its task; the running one is terminated and the list is gone
C33_Witness ==
    /\ last.op = "cancel_task"
    /\ last.gone # {}
    /\ last.sig \ last.gone # {}
    /\ \A p \in last.sig : procs[p] = "dead"
    /\ last.task_id \notin DOMAIN process_pids

\* C35: once the run of a task has been finalized (cleanup_task has run), the
\* task registry upload_tasks holds no record for its task id.
C35_RecordRemovedAtFinal ==
    \A r \in Runs : orch[r].pc = "done" => orch[r].task_id \notin DOMAIN upload_tasks

\* C36: the step that finalizes the run of task t (cleanup_task) leaves t
\* outside canceled_tasks.
C36_MarkGoneAtFinal ==
    [][\A r \in Runs :
         (orch[r].pc = "cleanup" /\ orch'[r].pc = "done") =>
           orch[r].task_id \notin canceled_tasks']_vars

\* C38: a request that has registered its task and returned without starting
\* a background run (no media files, campaign not found or not created, or a
\* cancellation raised in the handler) has had cleanup_task run for the task;
\* nothing runs for the request after its return.
C38_CleanupAfterEarlyReturn ==
    \A r \in Runs : orch[r].pc = "returned" => orch[r].task_id \in finalized

\* the steps of the orchestrator thread of run r, from the start of
\* process_videos / process_images / process_mixed_media to cleanup_task
OrchestratorStep(r) ==
    \/ process_start(r)
    \/ process_folder(r)
    \/ process_group_empty(r)
    \/ process_group(r)
    \/ \E res \in {"ok", "canceled"} : process_collect(r, res)
    \/ process_exit_pool(r)
    \/ process_finish(r)
    \/ cleanup_task(r)

\* the steps of the pool threads of run r
WorkerStep(r) == worker_start(r) \/ create_ad_check(r) \/ create_ad_body(r)

\* the steps of the program; the passing of time is left out, no guard of
\* the orchestrator or of a worker reads the clock
NextFair ==
    \/ \E r \in Runs, t \in Tasks : handle_create_campaign_register(r, t)
    \/ \E r \in Runs : handle_create_campaign_existing(r)
    \/ \E r \in Runs : handle_create_campaign_create(r)
    \/ \E r \in Runs : handle_create_campaign_start(r)
    \/ \E r \in Runs : OrchestratorStep(r)
    \/ \E r \in Runs : WorkerStep(r)
    \/ \E t \in Tasks : cancel_request(t)

\* the program under a fair scheduler: a thread that can run, the
\* orchestrator or a worker of the pool, eventually runs; the calls to the
\* remote services return
SpecFair ==
    /\ Init
    /\ [][NextFair]_vars
    /\ \A r \in Runs : WF_vars(OrchestratorStep(r)) /\ WF_vars(WorkerStep(r))

\* C40: every started run of process_videos, process_images or
\* process_mixed_media reaches the end of cleanup_task, whatever cancel
\* requests arrive during the run.
C40_RunTerminates ==
    \A r \in Runs : (orch[r].pc = "start") ~> (orch[r].pc = "done")

\* a run that was cancelled on its way has gone through cleanup_task
C40_Witness ==
    \E r \in Runs :
      /\ orch[r].pc = "done"
      /\ hist[r].observed
      /\ cancels >= 1
      /\ orch[r].task_id \in finalized

(* ------------- the registries under arbitrary callers ------------------ *)
\* lines 1036-1038 of handle_create_campaign
RegisterTask(t) ==
    /\ upload_tasks' = Put(upload_tasks, t, TRUE)
    /\ process_pids' = register_entry(process_pids, t)
    /\ finalized' = finalized \ {t}
    /\ last' = Op("register_task", t, FALSE, {}, FALSE)
    /\ UNCHANGED <<canceled_tasks, procs, clock, since, cancels, lockvars, runvars,
                   stepvars>>

\* a worker of task t spawns an external process and registers its pid
RegisterProcess(t) ==
    /\ \E p \in Pids :
         /\ procs[p] = "none"
         /\ \A q \in Pids : q < p => procs[q] # "none"
         /\ procs' = [procs EXCEPT ![p] = "alive"]
         /\ process_pids' = register_task_process(process_pids, t, p)
    /\ last' = Op("register_task_process", t, FALSE, {}, FALSE)
    /\ UNCHANGED <<upload_tasks, canceled_tasks, clock, since, finalized, cancels, lockvars,
                   runvars,
                   stepvars>>

\* a checkpoint reached by some thread of task t
Checkpoint(t) ==
    /\ check_cancellation(t)
    /\ UNCHANGED <<clock, cancels, lockvars, runvars,
                   stepvars>>

\* the request handler cancel_task
CancelRequest(t) ==
    /\ cancel_task(t)
    /\ UNCHANGED <<cancels, lockvars>>

\* cleanup_task(task_id, temp_dir) at the end of a run of task t
CleanupTask(t) ==
    /\ t \in DOMAIN upload_tasks
    /\ t \notin finalized
    /\ process_pids' = cleanup_task_pids(process_pids, t)
    /\ finalized' = finalized \cup {t}
    /\ last' = Op("cleanup_task", t, FALSE, {}, FALSE)
    /\ UNCHANGED <<upload_tasks, canceled_tasks, procs, clock, since, cancels, lockvars, runvars,
                   stepvars>>

\* an external process exits by itself
ProcessExit(p) ==
    /\ procs[p] = "alive"
    /\ procs' = [procs EXCEPT ![p] = "dead"]
    /\ UNCHANGED <<regvars, clock, last, since, finalized, cancels, lockvars, runvars,
                   stepvars>>

NextRegistry ==
    \/ \E t \in Tasks : RegisterTask(t)
    \/ \E t \in Tasks : RegisterProcess(t)
    \/ \E t \in Tasks : Checkpoint(t)
    \/ \E t \in Tasks : CancelRequest(t)
    \/ \E t \in Tasks : CleanupTask(t)
    \/ \E p \in Pids : ProcessExit(p)

SpecRegistry == Init /\ [][NextRegistry]_vars

(* ------------------- batches with groups above the cap ----------------- *)
\* one folder whose first subfolder holds more files than the pool has
\* threads, followed by a second subfolder
LargeBatches ==
    {<<<<n, m>>>> : n \in (MAX_WORKERS + 1) .. (MAX_WORKERS + MaxExtra),
                    m \in 1 .. MaxExtra}

\* handle_create_campaign_start for a request with such folders
handle_create_campaign_start_large(r) ==
    /\ orch[r].pc = "scan"
    /\ \E b \in LargeBatches :
         \E k \in KindsOf(SumFolders(b)) :
         orch' = [orch EXCEPT ![r].pc = "start", ![r].kind = k,
                              ![r].folders = b, ![r].total = SumFolders(b)]
    /\ UNCHANGED <<regvars, procs, clock, pool, out, hist, last, since, finalized,
                   cancels, lockvars,
                   stepvars>>

NextPool ==
    \/ \E r \in Runs, t \in Tasks : handle_create_campaign_register(r, t)
    \/ \E r \in Runs : handle_create_campaign_existing(r)
    \/ \E r \in Runs : handle_create_campaign_start_large(r)
    \/ \E r \in Runs : process_start(r)
    \/ \E r \in Runs : process_folder(r)
    \/ \E r \in Runs : process_group(r)
    \/ \E r \in Runs, res \in {"ok", "canceled"} : process_collect(r, res)
    \/ \E r \in Runs : process_exit_pool(r)
    \/ \E r \in Runs : process_finish(r)
    \/ \E r \in Runs : cleanup_task(r)
    \/ \E r \in Runs : worker_start(r)
    \/ \E r \in Runs : create_ad_check(r)
    \/ \E r \in Runs : create_ad_body(r)
    \/ \E t \in Tasks : cancel_request(t)

SpecPool == Init /\ [][NextPool]_vars

(* ---------------------------- is_video_ready --------------------------- *)
\* what AdVideo(fbid=video_id).api_get(fields=['status']) can do in one
\* attempt: report the status 'ready', report another status, or raise
CheckResults == {"ready", "not_ready", "error"}

range_has_next_inclusive(attempt, max_retries) == attempt <= max_retries

\* `for attempt in range(1, max_retries + 1)`: another attempt follows the
\* attempts made so far
range_has_next(attempt, max_retries) == attempt < max_retries

is_video_ready_try_propagate(res) ==
    IF res = "ready" THEN "return" ELSE IF res = "error" THEN "raise" ELSE "sleep"

\* the try block of one attempt: `return True` on the status 'ready';
\* `except Exception` logs the error of the check and goes on to the sleep
is_video_ready_try(res) == IF res = "ready" THEN "return" ELSE "sleep"

backoff_linear(delay) == delay + 1

\* `delay *= 2`
backoff(delay) == delay * 2

\* a unit of task t calls is_video_ready(video_id, max_retries, initial_delay)
is_video_ready_call(t) ==
    /\ poll.pc \in {"idle", "done"}
    /\ t \in DOMAIN upload_tasks
    /\ \E n \in 0 .. MaxRetries, d \in 1 .. MaxDelay :
         poll' = [IdlePoll EXCEPT !.pc = "loop", !.task_id = t, !.max_retries = n,
                                  !.initial_delay = d, !.delay = d]
    /\ UNCHANGED <<regvars, procs, clock, runvars, last, since, finalized, cancels, lockvars,
                   stage>>

\* one attempt: the loop header and the try block
is_video_ready_attempt ==
    /\ poll.pc = "loop"
    /\ range_has_next(poll.attempt, poll.max_retries)
    /\ \E res \in CheckResults :
         poll' = [poll EXCEPT
                    !.attempt = @ + 1,
                    !.results = Append(@, res),
                    !.pc = IF is_video_ready_try(res) = "sleep" THEN "sleep" ELSE "done",
                    !.ret = IF is_video_ready_try(res) = "return" THEN "True"
                            ELSE IF is_video_ready_try(res) = "raise" THEN "raised"
                            ELSE @]
    /\ UNCHANGED <<regvars, procs, clock, runvars, last, since, finalized, cancels, lockvars,
                   stage>>

\* time.sleep(delay) returns; delay *= 2.  The call is asleep while it is at
\* "sleep"; marked records whether the task was marked canceled at wake-up
is_video_ready_sleep ==
    /\ poll.pc = "sleep"
    /\ poll' = [poll EXCEPT !.sleeps = Append(@, poll.delay),
                            !.delay = backoff(@),
                            !.marked = poll.task_id \in canceled_tasks,
                            !.pc = "loop"]
    /\ UNCHANGED <<regvars, procs, clock, runvars, last, since, finalized, cancels, lockvars,
                   stage>>

\* the range is exhausted: `return False`
is_video_ready_return ==
    /\ poll.pc = "loop"
    /\ ~ range_has_next(poll.attempt, poll.max_retries)
    /\ poll' = [poll EXCEPT !.pc = "done", !.ret = "False"]
    /\ UNCHANGED <<regvars, procs, clock, runvars, last, since, finalized, cancels, lockvars,
                   stage>>

NextPoller ==
    \/ \E t \in Tasks : RegisterTask(t)
    \/ \E t \in Tasks : is_video_ready_call(t)
    \/ is_video_ready_attempt
    \/ is_video_ready_sleep
    \/ is_video_ready_return
    \/ \E t \in Tasks : cancel_request(t)

SpecPoller == Init /\ [][NextPoller]_vars

(* ----------------------- properties of is_video_ready ------------------ *)
\* C21: is_video_ready(max_retries = n) invokes the readiness check at most
\* n times; a check that reports ready is the last one and makes the call
\* return True; the call returns False exactly when n checks were made and
\* none reported ready; with n = 0 it returns False with no check and no sleep.
C21_PollerAttempts ==
    /\ Len(poll.results) <= poll.max_retries
    /\ \A i \in DOMAIN poll.results :
         poll.results[i] = "ready" =>
           i = Len(poll.results) /\ poll.pc = "done" /\ poll.ret = "True"
    /\ poll.ret = "True" =>
         poll.results # <<>> /\ poll.results[Len(poll.results)] = "ready"
    /\ poll.ret = "False" =>
         /\ Len(poll.results) = poll.max_retries
         /\ \A i \in DOMAIN poll.results : poll.results[i] # "ready"
    /\ poll.pc = "done" => poll.ret \in {"True", "False"}
    /\ (poll.pc # "idle" /\ poll.max_retries = 0) =>
         poll.results = <<>> /\ poll.sleeps = <<>> /\ poll.ret \in {"none", "False"}

\* a call has returned True on its last allowed attempt, after at least one
\* attempt that was not ready
C21_Witness ==
    /\ poll.pc = "done"
    /\ poll.ret = "True"
    /\ Len(poll.results) = poll.max_retries
    /\ poll.max_retries >= 2

\* C22: the sleep that follows the k-th attempt that was not ready lasts
\* initial_delay * 2^(k-1), and one sleep follows every such attempt; a call
\* with 3 attempts and initial delay 1 whose check is never ready has slept
\* 1, 2 and 4 in that order when it returns, and it returns False.
C22_BackoffSleeps ==
    /\ \A k \in DOMAIN poll.sleeps :
         poll.sleeps[k] = poll.initial_delay * 2 ^ (k - 1)
    /\ poll.pc \in {"loop", "done"} =>
         Len(poll.sleeps) =
           Cardinality({i \in DOMAIN poll.results : poll.results[i] # "ready"})
    /\ (/\ poll.pc = "done" /\ poll.max_retries = 3 /\ poll.initial_delay = 1
        /\ \A i \in DOMAIN poll.results : poll.results[i] # "ready") =>
         poll.sleeps = <<1, 2, 4>> /\ poll.ret = "False"

\* a call with 3 attempts and initial delay 1 has returned after three
\* attempts that reported a status other than ready
C22_Witness ==
    /\ poll.pc = "done"
    /\ poll.max_retries = 3
    /\ poll.initial_delay = 1
    /\ poll.results = <<"not_ready", "not_ready", "not_ready">>
    /\ poll.sleeps = <<1, 2, 4>>

\* C23: an exception raised by the readiness check is not propagated by
\* is_video_ready: the call never ends by raising; an attempt whose check
\* raised is followed by the sleep, and ends the call only when it was the
\* last of the max_retries attempts (the call then returns False); a ready
\* result after such an attempt makes the call return True.
C23_CheckErrorRetried ==
    /\ poll.ret # "raised"
    /\ \A i \in DOMAIN poll.results :
         poll.results[i] = "error" =>
           /\ (i < Len(poll.results) \/ poll.pc \in {"loop", "done"}) =>
                Len(poll.sleeps) >= i
           /\ (i = Len(poll.results) /\ poll.pc = "done") =>
                i = poll.max_retries /\ poll.ret = "False"
    /\ (/\ poll.pc = "done" /\ poll.results # <<>>
        /\ poll.results[Len(poll.results)] = "ready") => poll.ret = "True"

\* a call has returned True after an attempt whose check raised
C23_Witness ==
    /\ poll.pc = "done"
    /\ poll.ret = "True"
    /\ \E i \in DOMAIN poll.results : poll.results[i] = "error"
    /\ Len(poll.sleeps) = Len(poll.results) - 1

(* ------------- generate_thumbnail, get_video_duration, trim_video ------ *)
\* the functions of app.py that run an external process (ffmpeg, ffprobe)
Steps == {"generate_thumbnail", "get_video_duration", "trim_video"}

\* the step puts the pid of its process into process_pids before it waits
\* for the process: generate_thumbnail does; trim_video has no registration;
\* get_video_duration calls subprocess.run, which returns when the process
\* has exited
step_registers(fn) == fn = "generate_thumbnail"

\* the error events emitted by the step itself for the return code of its
\* process: generate_thumbnail calls emit_error for every non-zero code
step_errors(fn, returncode) ==
    IF fn = "generate_thumbnail" /\ returncode # "ok" THEN 1 ELSE 0

\* how the step ends once its process has exited; get_video_duration reads
\* result.pid of the CompletedProcess, which has no such attribute
step_outcome(fn, returncode) ==
    IF fn = "get_video_duration" THEN "AttributeError"
    ELSE IF returncode # "ok" THEN "CalledProcessError" ELSE "returned"

\* the except clauses of create_ad: TaskCanceledException and a
\* CalledProcessError whose return code is -SIGTERM are logged, every other
\* exception is reported by emit_error
create_ad_except_errors(outcome, returncode) ==
    IF \/ outcome = "TaskCanceledException"
       \/ outcome = "CalledProcessError" /\ returncode = "sigterm"
    THEN 0 ELSE 1

\* a unit of task t calls the step fn
step_call(t, fn) ==
    /\ stage.pc \in {"idle", "done"}
    /\ t \in DOMAIN upload_tasks
    /\ stage' = [IdleStage EXCEPT !.pc = "check", !.fn = fn, !.task_id = t]
    /\ UNCHANGED <<regvars, procs, clock, runvars, last, since, finalized, cancels, lockvars,
                   poll>>

\* the first statement of the step
step_check ==
    /\ stage.pc = "check"
    /\ check_cancellation(stage.task_id)
    /\ stage' = IF Raises(canceled_tasks, stage.task_id)
                THEN [stage EXCEPT !.pc = "raised", !.outcome = "TaskCanceledException"]
                ELSE [stage EXCEPT !.pc = "spawn", !.checked = TRUE]
    /\ UNCHANGED <<clock, cancels, lockvars, runvars, poll>>

\* asyncio.create_subprocess_exec / subprocess.run starts the process
step_spawn ==
    /\ stage.pc = "spawn"
    /\ \E p \in Pids :
         /\ procs[p] = "none"
         /\ \A q \in Pids : q < p => procs[q] # "none"
         /\ procs' = [procs EXCEPT ![p] = "alive"]
         /\ stage' = [stage EXCEPT !.pid = p, !.checked = FALSE,
                         !.pc = IF step_registers(stage.fn) THEN "register" ELSE "wait"]
    /\ UNCHANGED <<regvars, clock, runvars, last, since, finalized, cancels, lockvars, poll>>

\* `with tasks_lock: process_pids.setdefault(task_id, []).append(proc.pid)`
step_register ==
    /\ stage.pc = "register"
    /\ process_pids' = register_task_process(process_pids, stage.task_id, stage.pid)
    /\ last' = Op("register_task_process", stage.task_id, FALSE, {}, FALSE)
    /\ stage' = [stage EXCEPT !.pc = "wait"]
    /\ UNCHANGED <<upload_tasks, canceled_tasks, procs, clock, runvars, since,
                   finalized, cancels, lockvars, poll>>

\* the process of the step exits by itself, with code 0 or with another code
step_process_exit ==
    /\ stage.pc \in {"register", "wait"}
    /\ procs[stage.pid] = "alive"
    /\ procs' = [procs EXCEPT ![stage.pid] = "dead"]
    /\ \E code \in {"ok", "failed"} : stage' = [stage EXCEPT !.returncode = code]
    /\ UNCHANGED <<regvars, clock, runvars, last, since, finalized, cancels, lockvars, poll>>

\* proc.communicate() / subprocess.run returns: the process that did not
\* exit by itself was ended by SIGTERM and its return code is -SIGTERM
step_wait ==
    /\ stage.pc = "wait"
    /\ procs[stage.pid] = "dead"
    /\ LET rc == IF stage.returncode = "none" THEN "sigterm" ELSE stage.returncode
       IN  stage' = [stage EXCEPT
                       !.returncode = rc,
                       !.errors = @ + step_errors(stage.fn, rc),
                       !.outcome = step_outcome(stage.fn, rc),
                       !.pc = IF step_outcome(stage.fn, rc) = "returned"
                              THEN "done" ELSE "raised"]
    /\ UNCHANGED <<regvars, procs, clock, runvars, last, since, finalized, cancels, lockvars,
                   poll>>

\* the exception of the step arrives in the except clauses of create_ad,
\* and create_ad returns
create_ad_except ==
    /\ stage.pc = "raised"
    /\ stage' = [stage EXCEPT
                   !.errors = @ + create_ad_except_errors(stage.outcome, stage.returncode),
                   !.pc = "done"]
    /\ UNCHANGED <<regvars, procs, clock, runvars, last, since, finalized, cancels, lockvars,
                   poll>>

\* a unit of task t runs the coroutine create_image_ad
create_image_ad_call(t) ==
    /\ stage.pc \in {"idle", "done"}
    /\ t \in DOMAIN upload_tasks
    /\ stage' = [IdleStage EXCEPT !.pc = "upload_check", !.fn = "create_image_ad",
                                  !.task_id = t]
    /\ UNCHANGED <<regvars, procs, clock, runvars, last, since, finalized, cancels, lockvars,
                   poll>>

\* the first statement of upload_image, outside its try
upload_image_check ==
    /\ stage.pc = "upload_check"
    /\ check_cancellation(stage.task_id)
    /\ stage' = IF Raises(canceled_tasks, stage.task_id)
                THEN [stage EXCEPT !.pc = "raised", !.outcome = "TaskCanceledException"]
                ELSE [stage EXCEPT !.pc = "upload", !.checked = TRUE]
    /\ UNCHANGED <<clock, cancels, lockvars, runvars, poll>>

\* the try block of upload_image: image.remote_create() succeeds and the hash
\* is returned, or it raises, emit_error reports it and None is returned
upload_image ==
    /\ stage.pc = "upload"
    /\ \E uploaded \in BOOLEAN :
         stage' = IF uploaded
                  THEN [stage EXCEPT !.pc = "creative", !.checked = FALSE]
                  ELSE [stage EXCEPT !.pc = "no_hash", !.errors = @ + 1,
                                     !.outcome = "upload_failed", !.checked = FALSE]
    /\ UNCHANGED <<regvars, procs, clock, runvars, last, since, finalized, cancels, lockvars,
                   poll>>

\* create_image_ad: `if not image_hash: emit_error(...); return`
create_image_ad_no_hash ==
    /\ stage.pc = "no_hash"
    /\ stage' = [stage EXCEPT !.pc = "done", !.errors = @ + 1]
    /\ UNCHANGED <<regvars, procs, clock, runvars, last, since, finalized, cancels, lockvars,
                   poll>>

\* create_ad_creative has no try of its own: the creative and the ad are
\* created, or the exception of remote_create goes up to create_ad
create_ad_creative ==
    /\ stage.pc = "creative"
    /\ \E created \in BOOLEAN :
         stage' = IF created
                  THEN [stage EXCEPT !.pc = "done", !.outcome = "returned"]
                  ELSE [stage EXCEPT !.pc = "raised", !.outcome = "FacebookRequestError"]
    /\ UNCHANGED <<regvars, procs, clock, runvars, last, since, finalized, cancels, lockvars,
                   poll>>

NextSteps ==
    \/ \E t \in Tasks : RegisterTask(t)
    \/ \E t \in Tasks, fn \in Steps : step_call(t, fn)
    \/ \E t \in Tasks : create_image_ad_call(t)
    \/ upload_image_check
    \/ upload_image
    \/ create_image_ad_no_hash
    \/ create_ad_creative
    \/ step_check
    \/ step_spawn
    \/ step_register
    \/ step_process_exit
    \/ step_wait
    \/ create_ad_except
    \/ \E t \in Tasks : cancel_request(t)

SpecSteps == Init /\ [][NextSteps]_vars

\* C29: after a sleep at whose end the task of the unit is marked canceled
\* (a cancel_task arrived while is_video_ready slept), is_video_ready makes
\* no further readiness attempt.
C29_CancelStopsPolling ==
    [][(/\ poll.pc = "loop"
        /\ poll.attempt >= 1
        /\ Len(poll'.results) > Len(poll.results)) =>
         ~ poll.marked]_vars

(* ------------------------ properties of the steps ---------------------- *)
\* C24: when the external process of a unit's step was ended by the SIGTERM
\* of cancel_task, the unit has emitted no error event when it ends.
C24_SigtermNoError ==
    (stage.pc = "done" /\ stage.returncode = "sigterm") => stage.errors = 0

\* C25: a unit that failed and met no cancellation has emitted exactly one
\* error event when it ends, and a unit that did not fail has emitted none.
C25_OneErrorPerFailedUnit ==
    stage.pc = "done" =>
      /\ stage.outcome \in {"upload_failed", "FacebookRequestError", "AttributeError"}
           => stage.errors = 1
      /\ stage.outcome = "CalledProcessError" /\ stage.returncode = "failed"
           => stage.errors = 1
      /\ stage.outcome = "returned" => stage.errors = 0

\* C30: while a unit waits for the exit of an external process it started
\* for its task and the process is running, the pid of the process is in
\* the task's list in process_pids.
C30_RegisteredWhileWaiting ==
    (stage.pc = "wait" /\ procs[stage.pid] = "alive") =>
      stage.pid \in Range(PidsOf(process_pids, stage.task_id))

\* C37: a cancel_task for the task of a step whose external process has been
\* spawned and is still running sends SIGTERM to that process, whether or not
\* the step has appended the pid to process_pids yet.
C37_SpawnedIsSignalled ==
    [][(/\ RegistryStep
        /\ last'.op = "cancel_task"
        /\ last'.task_id = stage.task_id
        /\ stage.pc \in {"register", "wait"}
        /\ procs[stage.pid] = "alive") =>
          stage.pid \in last'.sig]_vars
\* C32: a step of the unit pipeline (the external process of thumbnail
\* generation, duration probing or trimming, the upload of the image, the
\* creation of the ad creative and the ad) starts only when check_cancellation
\* has been called for the task since the previous step.
C32_CheckpointBeforeStep ==
    [][(stage.pc \in {"spawn", "upload", "creative"} /\ stage'.pc # stage.pc) =>
         stage.checked]_vars

(* ------------------- the critical sections of tasks_lock --------------- *)
\* the task the threads work on
LockTasks == {"t1"}

\* the functions that touch the registries, by the thread that runs them:
\* the request handlers handle_create_campaign and cancel_task, the
\* orchestrator (checkpoint of the collect loop, cleanup_task) and a worker
\* (checkpoints of create_ad and its steps, registration of a pid)
ThreadOps(th) ==
    IF th = "handler" THEN {"register_task", "cancel_task"}
    ELSE IF th = "orchestrator" THEN {"check_cancellation", "cleanup_task"}
    ELSE {"check_cancellation", "register_task_process"}

locks_cleanup_unlocked(op) ==
    op \in {"register_task", "cancel_task", "check_cancellation",
            "register_task_process"}

\* the registry accesses of the function are inside `with tasks_lock:`
locks(op) ==
    op \in {"register_task", "cancel_task", "check_cancellation",
            "register_task_process", "cleanup_task"}

with_exit_skipped_on_raise(holder, raised) == IF raised THEN holder ELSE "free"

\* the lock after the with block is left, normally or by an exception
with_exit(holder, raised) == "free"

\* a thread calls one of its functions; the worker that registers a pid has
\* started the process before
thread_call(th, op, t) ==
    /\ thr[th].pc = "idle"
    /\ op \in ThreadOps(th)
    /\ op = "cleanup_task" => t \in DOMAIN upload_tasks /\ t \notin finalized
    /\ IF op = "register_task_process"
       THEN \E p \in Pids :
              /\ procs[p] = "none"
              /\ \A q \in Pids : q < p => procs[q] # "none"
              /\ procs' = [procs EXCEPT ![p] = "alive"]
              /\ thr' = [thr EXCEPT ![th] = [pc |-> IF locks(op) THEN "acquire" ELSE "in",
                                             op |-> op, task_id |-> t, pid |-> p,
                                             raised |-> FALSE]]
       ELSE /\ procs' = procs
            /\ thr' = [thr EXCEPT ![th] = [pc |-> IF locks(op) THEN "acquire" ELSE "in",
                                           op |-> op, task_id |-> t, pid |-> 0,
                                           raised |-> FALSE]]
    /\ UNCHANGED <<regvars, clock, runvars, last, since, finalized, cancels, stepvars,
                   tasks_lock>>

\* `with tasks_lock:` is entered: Lock.acquire() returns when the lock is free
lock_acquire(th) ==
    /\ thr[th].pc = "acquire"
    /\ tasks_lock = "free"
    /\ tasks_lock' = th
    /\ thr' = [thr EXCEPT ![th].pc = "in"]
    /\ UNCHANGED <<regvars, procs, clock, runvars, last, since, finalized, cancels,
                   stepvars>>

\* the statements inside the with block of the function
lock_section(th) ==
    /\ thr[th].pc = "in"
    /\ LET t == thr[th].task_id
           op == thr[th].op
       IN  /\ \/ /\ op = "register_task"
                 /\ upload_tasks' = Put(upload_tasks, t, TRUE)
                 /\ process_pids' = register_entry(process_pids, t)
                 /\ finalized' = finalized \ {t}
                 /\ last' = Op("register_task", t, FALSE, {}, FALSE)
                 /\ UNCHANGED <<canceled_tasks, procs, since, clock, runvars, stepvars>>
              \/ /\ op = "cancel_task"
                 /\ cancel_task(t)
              \/ /\ op = "check_cancellation"
                 /\ check_cancellation(t)
                 /\ UNCHANGED <<clock, runvars, stepvars>>
              \/ /\ op = "register_task_process"
                 /\ process_pids' = register_task_process(process_pids, t, thr[th].pid)
                 /\ last' = Op("register_task_process", t, FALSE, {}, FALSE)
                 /\ UNCHANGED <<upload_tasks, canceled_tasks, procs, since, finalized,
                                clock, runvars, stepvars>>
              \/ /\ op = "cleanup_task"
                 /\ process_pids' = cleanup_task_pids(process_pids, t)
                 /\ finalized' = finalized \cup {t}
                 /\ last' = Op("cleanup_task", t, FALSE, {}, FALSE)
                 /\ UNCHANGED <<upload_tasks, canceled_tasks, procs, since, clock,
                                runvars, stepvars>>
           /\ thr' = [thr EXCEPT ![th].pc = "exit",
                                 ![th].raised = /\ op = "check_cancellation"
                                                /\ Raises(canceled_tasks, t)]
    /\ UNCHANGED <<cancels, tasks_lock>>

\* the with block is left and the function returns or raises
lock_release(th) ==
    /\ thr[th].pc = "exit"
    /\ tasks_lock' = IF tasks_lock = th
                     THEN with_exit(th, thr[th].raised) ELSE tasks_lock
    /\ thr' = [thr EXCEPT ![th].pc = "idle"]
    /\ UNCHANGED <<regvars, procs, clock, runvars, last, since, finalized, cancels,
                   stepvars>>

NextLock ==
    \/ \E th \in Threads, t \in LockTasks : \E op \in ThreadOps(th) : thread_call(th, op, t)
    \/ \E th \in Threads : lock_acquire(th)
    \/ \E th \in Threads : lock_section(th)
    \/ \E th \in Threads : lock_release(th)

SpecLock == Init /\ [][NextLock]_vars

(* ------------------------ properties of the lock ----------------------- *)
\* C34: every step that reads or writes canceled_tasks, process_pids or
\* upload_tasks is taken by the thread that holds tasks_lock, inside its
\* with block.
C34_AccessUnderLock ==
    [][(RegistryStep \/ regvars' # regvars) =>
         \E th \in Threads :
           /\ tasks_lock = th
           /\ tasks_lock' = th
           /\ thr[th].pc = "in"
           /\ thr'[th].pc = "exit"]_vars

\* a thread has made its access under the lock while another thread waits
\* for the lock
C34_Witness ==
    \E th \in Threads, w \in Threads :
      /\ th # w
      /\ tasks_lock = th
      /\ thr[th].pc = "exit"
      /\ thr[w].pc = "acquire"

\* some thread takes a step of a critical section
LockProgress ==
    \E th \in Threads : lock_acquire(th) \/ lock_section(th) \/ lock_release(th)

\* C39: a thread that asks for tasks_lock does not hold it; the lock is held
\* only by a thread inside its with block, so it is free again after every
\* exit of the block, the raise of check_cancellation included; and whenever
\* a thread waits for the lock, some critical section can take a step.
C39_NoDeadlock ==
    /\ \A th \in Threads : thr[th].pc = "acquire" => tasks_lock # th
    /\ \A th \in Threads : tasks_lock = th => thr[th].pc \in {"in", "exit"}
    /\ (\E th \in Threads : thr[th].pc = "acquire") => ENABLED LockProgress

\* check_cancellation has raised in one thread and another thread is inside
\* its critical section afterwards
C39_Witness ==
    \E th \in Threads, w \in Threads :
      /\ th # w
      /\ thr[th].pc = "idle"
      /\ thr[th].raised
      /\ tasks_lock = w
      /\ thr[w].pc = "in"
====
